---- MODULE Spec2Model ----
(***************************************************************************)
(* The static complexity estimator of components/CodeEditor.tsx:           *)
(* analyzeComplexity with its helpers analyzeNestedLoops, analyzeRecursion *)
(* and analyzeDataStructures, and the growth-curve generator               *)
(* generateComplexityData; and the component around them: the effect that *)
(* loads pyodide, runCode with its execution history, and the theme        *)
(* selectors with getActualEditorTheme.                                    *)
(*                                                                         *)
(* Source texts are TLA+ strings; the JavaScript string methods and the    *)
(* two regular expressions of analyzeRecursion are operators over the      *)
(* characters of the string.  Numbers of the growth curve are held in     *)
(* thousandths, because Math.log2 is not an integer.                       *)
(***************************************************************************)
EXTENDS Integers, Sequences, FiniteSets, TLC

VARIABLES
    code,            \* argument of the analyzeComplexity call (a JS value)
    pc,              \* position inside analyzeComplexity
    nestedLoops,     \* const nestedLoops = analyzeNestedLoops(code)
    recursion,       \* const recursion = analyzeRecursion(code)
    dataStructures,  \* const dataStructures = analyzeDataStructures(code)
    complexity,      \* let complexity
    description,     \* let description
    details,         \* let details
    report,          \* value returned by analyzeComplexity
    label,           \* argument of the generateComplexityData call
    n,               \* loop variable of generateComplexityData
    data,            \* const data of generateComplexityData
    gpc,             \* position inside generateComplexityData
    firstCurve,      \* curve returned by the first call, kept for later calls
    lines,           \* const lines of analyzeNestedLoops
    lineIndex,       \* number of lines the for loop has gone through
    currentNesting,  \* let currentNesting
    maxNesting,      \* let maxNesting
    peakNesting,     \* largest value currentNesting has had in this call
    spc,             \* position inside analyzeNestedLoops
    pyodide,         \* the pyodide state is non-null
    loadingPyodide,  \* the loadingPyodide state
    lpc,             \* position inside the load effect
    mounted,         \* let mounted of the load effect
    pythonCode,      \* the pythonCode state (what getCurrentCode returns)
    output,          \* the output state
    running,         \* the running state
    executionHistory, \* the executionHistory state
    runs,            \* the runCode calls whose promise or timer is outstanding
    theme,           \* theme of useTheme(): the application's theme setting
    systemDark,      \* the system prefers the dark colour scheme
    editorTheme,     \* the editorTheme state
    monacoTheme      \* the theme prop the editor was last rendered with

vars == <<code, pc, nestedLoops, recursion, dataStructures, complexity,
          description, details, report, label, n, data, gpc, firstCurve,
          lines, lineIndex, currentNesting, maxNesting, peakNesting, spc,
          pyodide, loadingPyodide, lpc, mounted, pythonCode, output, running,
          executionHistory, runs, theme, systemDark, editorTheme, monacoTheme>>

analysisVars == <<code, pc, nestedLoops, recursion, dataStructures,
                  complexity, description, details, report>>

curveVars == <<label, n, data, gpc, firstCurve>>

scanVars == <<lines, lineIndex, currentNesting, maxNesting, peakNesting, spc>>

runVars == <<pyodide, loadingPyodide, lpc, mounted, pythonCode, output,
             running, executionHistory, runs>>

themeVars == <<theme, systemDark, editorTheme, monacoTheme>>

\* what a step of analyzeComplexity leaves alone
notAnalysis == <<curveVars, scanVars, runVars, themeVars>>

\* what a step of generateComplexityData leaves alone
notCurve == <<analysisVars, scanVars, runVars, themeVars>>

\* what a step of analyzeNestedLoops leaves alone
notScan == <<analysisVars, curveVars, runVars, themeVars>>

\* what a step of the editor component leaves alone
notRun == <<analysisVars, curveVars, scanVars, themeVars>>

\* what a step of the theme selectors leaves alone
notTheme == <<analysisVars, curveVars, scanVars, runVars>>

-----------------------------------------------------------------------------
(* Bounds of the model *)

MaxLines == 3

\* runCode calls with a promise or a timer outstanding at the same time
MaxInFlight == 2

\* programs written one after the other in the editor
MaxPrograms == 11

-----------------------------------------------------------------------------
(* JavaScript values and string methods *)

StringValue(s) == [type |-> "string", value |-> s]

NullValue == [type |-> "null", value |-> ""]

Max(a, b) == IF a >= b THEN a ELSE b

Min(a, b) == IF a <= b THEN a ELSE b

CharAt(s, i) == IF i >= 1 /\ i <= Len(s) THEN SubSeq(s, i, i) ELSE ""

\* the text s has the text p at position i
MatchAt(s, i, p) ==
    /\ i >= 1
    /\ i + Len(p) - 1 <= Len(s)
    /\ SubSeq(s, i, i + Len(p) - 1) = p

includes(s, p) == \E i \in 1..(Len(s) - Len(p) + 1) : MatchAt(s, i, p)

startsWith(s, p) == MatchAt(s, 1, p)

\* white space of String.prototype.trim and of the regular expression \s
WhiteSpace == {" ", "\t", "\n", "\r"}

\* the regular expression \w
WordChars ==
    {"a", "b", "c", "d", "e", "f", "g", "h", "i", "j", "k", "l", "m",
     "n", "o", "p", "q", "r", "s", "t", "u", "v", "w", "x", "y", "z",
     "A", "B", "C", "D", "E", "F", "G", "H", "I", "J", "K", "L", "M",
     "N", "O", "P", "Q", "R", "S", "T", "U", "V", "W", "X", "Y", "Z",
     "0", "1", "2", "3", "4", "5", "6", "7", "8", "9", "_"}

trim(s) ==
    LET keep == {i \in 1..Len(s) : CharAt(s, i) \notin WhiteSpace}
    IN  IF keep = {} THEN ""
        ELSE LET first == CHOOSE i \in keep : \A j \in keep : i <= j
                 last  == CHOOSE i \in keep : \A j \in keep : i >= j
             IN  SubSeq(s, first, last)

RECURSIVE splitFrom(_, _)
\* the lines of s from position i on
splitFrom(s, i) ==
    LET ends == {k \in i..Len(s) : CharAt(s, k) = "\n"}
    IN  IF ends = {} THEN <<SubSeq(s, i, Len(s))>>
        ELSE LET k == CHOOSE e \in ends : \A f \in ends : e <= f
             IN  <<SubSeq(s, i, k - 1)>> \o splitFrom(s, k + 1)

\* code.split('\n')
split(s) == splitFrom(s, 1)

RECURSIVE join(_, _)
\* structures.join(sep)
join(seq, sep) ==
    IF Len(seq) = 0 THEN ""
    ELSE IF Len(seq) = 1 THEN seq[1]
    ELSE seq[1] \o sep \o join(Tail(seq), sep)

-----------------------------------------------------------------------------
(* analyzeNestedLoops *)

\* one iteration of the loop over the lines
\* ScanLine without the clamp at zero
ScanLineNoClamp(st, line) ==
    LET trimmed == trim(line)
    IN  IF startsWith(trimmed, "for ") \/ startsWith(trimmed, "while ")
        THEN [currentNesting |-> st.currentNesting + 1,
              maxNesting     |-> Max(st.maxNesting, st.currentNesting + 1)]
        ELSE IF trimmed = "" \/ (~startsWith(trimmed, " ") /\ st.currentNesting > 0)
        THEN [currentNesting |-> st.currentNesting - 1,
              maxNesting     |-> st.maxNesting]
        ELSE st

\* ScanLine with the maximum taken before the increment
ScanLineStaleMax(st, line) ==
    LET trimmed == trim(line)
    IN  IF startsWith(trimmed, "for ") \/ startsWith(trimmed, "while ")
        THEN [currentNesting |-> st.currentNesting + 1,
              maxNesting     |-> Max(st.maxNesting, st.currentNesting)]
        ELSE IF trimmed = "" \/ (~startsWith(trimmed, " ") /\ st.currentNesting > 0)
        THEN [currentNesting |-> Max(0, st.currentNesting - 1),
              maxNesting     |-> st.maxNesting]
        ELSE st

ScanLine(st, line) ==
    LET trimmed == trim(line)
    IN  IF startsWith(trimmed, "for ") \/ startsWith(trimmed, "while ")
        THEN [currentNesting |-> st.currentNesting + 1,
              maxNesting     |-> Max(st.maxNesting, st.currentNesting + 1)]
        ELSE IF trimmed = "" \/ (~startsWith(trimmed, " ") /\ st.currentNesting > 0)
        THEN [currentNesting |-> Max(0, st.currentNesting - 1),
              maxNesting     |-> st.maxNesting]
        ELSE st

RECURSIVE ScanLines(_, _)
ScanLines(st, ls) ==
    IF Len(ls) = 0 THEN st
    ELSE ScanLines(ScanLine(st, Head(ls)), Tail(ls))

analyzeNestedLoops(text) ==
    [count |-> ScanLines([currentNesting |-> 0, maxNesting |-> 0],
                         split(text)).maxNesting]

-----------------------------------------------------------------------------
(* analyzeRecursion *)

RECURSIVE SkipSpace(_, _)
\* position after the longest run of \s that starts at i
SkipSpace(s, i) ==
    IF i <= Len(s) /\ CharAt(s, i) \in WhiteSpace THEN SkipSpace(s, i + 1) ELSE i

RECURSIVE SkipWord(_, _)
\* position after the longest run of \w that starts at i
SkipWord(s, i) ==
    IF i <= Len(s) /\ CharAt(s, i) \in WordChars THEN SkipWord(s, i + 1) ELSE i

RECURSIVE SkipNotClose(_, _)
\* position after the longest run of [^)] that starts at i
SkipNotClose(s, i) ==
    IF i <= Len(s) /\ CharAt(s, i) # ")" THEN SkipNotClose(s, i + 1) ELSE i

\* /def\s+(\w+)\s*\(/ matched at position i: the captured name, "" if no match
DefNameAt(s, i) ==
    LET a == i + 3
        b == SkipSpace(s, a)
        c == SkipWord(s, b)
        d == SkipSpace(s, c)
    IN  IF MatchAt(s, i, "def") /\ b > a /\ c > b /\ CharAt(s, d) = "("
        THEN SubSeq(s, b, c - 1)
        ELSE ""

RECURSIVE NamesFrom(_, _)
NamesFrom(s, i) ==
    IF i > Len(s) THEN <<>>
    ELSE IF DefNameAt(s, i) # "" THEN <<DefNameAt(s, i)>> \o NamesFrom(s, i + 1)
    ELSE NamesFrom(s, i + 1)

\* code.match(/def\s+(\w+)\s*\(/g) mapped to the captured names, in source
\* order; <<>> stands for the null of no match
functionNames(text) == NamesFrom(text, 1)

\* header  def\s+NAME\s*\([^)]*\):  matched at position i: the position
\* after the colon, 0 if no match
HeaderEndAt(s, i, funcName) ==
    LET a == i + 3
        b == SkipSpace(s, a)
        c == b + Len(funcName)
        d == SkipSpace(s, c)
        e == SkipNotClose(s, d + 1)
    IN  IF /\ MatchAt(s, i, "def")
           /\ b > a
           /\ MatchAt(s, b, funcName)
           /\ CharAt(s, d) = "("
           /\ MatchAt(s, e, "):")
        THEN e + 2
        ELSE 0

\* the lookahead (?=\ndef|\nclass|$) at position k
BodyStopAt(s, k) ==
    MatchAt(s, k, "\ndef") \/ MatchAt(s, k, "\nclass") \/ k = Len(s) + 1

\* first match of funcPattern: [from, body, to), from = 0 for the null
FuncSpan(s, funcName) ==
    LET starts == {i \in 1..Len(s) : HeaderEndAt(s, i, funcName) # 0}
    IN  IF starts = {} THEN [from |-> 0, body |-> 0, to |-> 0]
        ELSE LET i == CHOOSE x \in starts : \A y \in starts : x <= y
                 b == HeaderEndAt(s, i, funcName)
                 stops == {k \in b..(Len(s) + 1) : BodyStopAt(s, k)}
                 k == CHOOSE x \in stops : \A y \in stops : x <= y
             IN  [from |-> i, body |-> b, to |-> k]

\* funcMatch[0], "" for the null
funcMatch(s, funcName) ==
    LET sp == FuncSpan(s, funcName)
    IN  IF sp.from = 0 THEN "" ELSE SubSeq(s, sp.from, sp.to - 1)

\* ClassifyFunction with a kind analyzeComplexity does not know for the
\* last pattern
ClassifyFunctionUnknownKind(text, funcName) ==
    LET m == funcMatch(text, funcName)
    IN  IF m # "" /\ includes(m, funcName \o "(")
        THEN IF \/ includes(funcName, "fibonacci")
                \/ (/\ includes(m, funcName \o "(n-1)")
                    /\ includes(m, funcName \o "(n-2)"))
             THEN "fibonacci"
             ELSE IF \/ includes(m, "factorial")
                     \/ (includes(m, funcName \o "(n-1)") /\ includes(m, "n *"))
             THEN "factorial"
             ELSE IF includes(m, funcName \o "(")
             THEN "simple"
             ELSE "none"
        ELSE "none"

\* ClassifyFunction with the factorial test ahead of the fibonacci test
ClassifyFunctionFactorialFirst(text, funcName) ==
    LET m == funcMatch(text, funcName)
    IN  IF m # "" /\ includes(m, funcName \o "(")
        THEN IF \/ includes(m, "factorial")
                \/ (includes(m, funcName \o "(n-1)") /\ includes(m, "n *"))
             THEN "factorial"
             ELSE IF \/ includes(funcName, "fibonacci")
                     \/ (/\ includes(m, funcName \o "(n-1)")
                         /\ includes(m, funcName \o "(n-2)"))
             THEN "fibonacci"
             ELSE IF includes(m, funcName \o "(")
             THEN "linear"
             ELSE "none"
        ELSE "none"

\* ClassifyFunction without the test for the word factorial
ClassifyFunctionNoWordTest(text, funcName) ==
    LET m == funcMatch(text, funcName)
    IN  IF m # "" /\ includes(m, funcName \o "(")
        THEN IF \/ includes(funcName, "fibonacci")
                \/ (/\ includes(m, funcName \o "(n-1)")
                    /\ includes(m, funcName \o "(n-2)"))
             THEN "fibonacci"
             ELSE IF includes(m, funcName \o "(n-1)") /\ includes(m, "n *")
             THEN "factorial"
             ELSE IF includes(m, funcName \o "(")
             THEN "linear"
             ELSE "none"
        ELSE "none"

\* the pattern tests of one iteration of the loop over functionNames;
\* "none" when the iteration falls through
ClassifyFunction(text, funcName) ==
    LET m == funcMatch(text, funcName)
    IN  IF m # "" /\ includes(m, funcName \o "(")
        THEN IF \/ includes(funcName, "fibonacci")
                \/ (/\ includes(m, funcName \o "(n-1)")
                    /\ includes(m, funcName \o "(n-2)"))
             THEN "fibonacci"
             ELSE IF \/ includes(m, "factorial")
                     \/ (includes(m, funcName \o "(n-1)") /\ includes(m, "n *"))
             THEN "factorial"
             ELSE IF includes(m, funcName \o "(")
             THEN "linear"
             ELSE "none"
        ELSE "none"

RECURSIVE FirstRecursion(_, _)
FirstRecursion(text, names) ==
    IF Len(names) = 0 THEN [hasRecursion |-> FALSE, type |-> "none"]
    ELSE IF ClassifyFunction(text, Head(names)) # "none"
    THEN [hasRecursion |-> TRUE, type |-> ClassifyFunction(text, Head(names))]
    ELSE FirstRecursion(text, Tail(names))

analyzeRecursion(text) == FirstRecursion(text, functionNames(text))

-----------------------------------------------------------------------------
(* analyzeDataStructures *)

\* analyzeDataStructures with the Set test ahead of the Dictionary test
analyzeDataStructuresSetFirst(text) ==
    (IF includes(text, "list(") \/ includes(text, "[]") THEN <<"List">> ELSE <<>>)
    \o (IF includes(text, "set(") THEN <<"Set">> ELSE <<>>)
    \o (IF includes(text, "dict(") \/ includes(text, "{}") THEN <<"Dictionary">> ELSE <<>>)
    \o (IF includes(text, "tuple(") \/ includes(text, "(") THEN <<"Tuple">> ELSE <<>>)

\* the four presence tests, in the order of the pushes
analyzeDataStructures(text) ==
    (IF includes(text, "list(") \/ includes(text, "[]") THEN <<"List">> ELSE <<>>)
    \o (IF includes(text, "dict(") \/ includes(text, "{}") THEN <<"Dictionary">> ELSE <<>>)
    \o (IF includes(text, "set(") THEN <<"Set">> ELSE <<>>)
    \o (IF includes(text, "tuple(") \/ includes(text, "(") THEN <<"Tuple">> ELSE <<>>)

-----------------------------------------------------------------------------
(* Inputs of analyzeComplexity *)

\* lines the texts are built from
Lines ==
    {"",
     "print('hi')",
     "x=[1,2,3]",
     "x.sort()",
     "sort(x)",
     "for i in range(5):",
     "    for j in range(5):",
     "if x in list(y):",
     "s=set(dict())",
     "def c(n): return c(n-1)",
     "def d(x): return x + 1",
     "def f(n):",
     "    return f(n-1)+f(n-2)",
     "    return n * f(n-1)",
     "    return n*f(n-1)",
     "def factorial(n): return factorial(n-2)",
     "def g(n): return g(n-1)+g(n-2)"}

Texts ==
    {join(ls, "\n") : ls \in UNION {[1..k -> Lines] : k \in 0..MaxLines}}

\* a caller that is not type-checked can pass a value that is not a string
Inputs == {StringValue(t) : t \in Texts} \cup {NullValue}

-----------------------------------------------------------------------------
(* analyzeComplexity, statement by statement *)

NoResult == [set |-> FALSE]

NoReport == [returned |-> FALSE]

\* the state at the top of the try block, after the three let statements
Enter(v) ==
    /\ code = v
    /\ pc = "helpers"
    /\ complexity = "O(1)"
    /\ description = "Constant time - basic operations"
    /\ details = <<>>
    /\ nestedLoops = NoResult
    /\ recursion = NoResult
    /\ dataStructures = NoResult
    /\ report = NoReport

\* TryReport with averageCase left at the initial class
TryReportStaleAverage(c, d, dt, nl) ==
    [complexity  |-> c,
     description |-> d,
     details     |-> dt,
     worstCase   |-> c,
     bestCase    |-> IF nl.count > 0 THEN "O(1)" ELSE "O(1)",
     averageCase |-> "O(1)"]

\* TryReport with bestCase following the class when a loop was found
TryReportBestFollowsClass(c, d, dt, nl) ==
    [complexity  |-> c,
     description |-> d,
     details     |-> dt,
     worstCase   |-> c,
     bestCase    |-> IF nl.count > 0 THEN c ELSE "O(1)",
     averageCase |-> c]

\* the object returned by the try block
TryReport(c, d, dt, nl) ==
    [complexity  |-> c,
     description |-> d,
     details     |-> dt,
     worstCase   |-> c,
     bestCase    |-> IF nl.count > 0 THEN "O(1)" ELSE "O(1)",
     averageCase |-> c]

\* FailureReport with an empty details list
FailureReportNoDetails ==
    [complexity  |-> "O(?)",
     description |-> "Unable to analyze complexity",
     details     |-> <<>>,
     worstCase   |-> "O(?)",
     bestCase    |-> "O(?)",
     averageCase |-> "O(?)"]

\* the object returned by the catch block
FailureReport ==
    [complexity  |-> "O(?)",
     description |-> "Unable to analyze complexity",
     details     |-> <<"Code analysis failed">>,
     worstCase   |-> "O(?)",
     bestCase    |-> "O(?)",
     averageCase |-> "O(?)"]

\* the three helper calls on a string
Helpers ==
    /\ pc = "helpers"
    /\ code.type = "string"
    /\ nestedLoops' = analyzeNestedLoops(code.value)
    /\ recursion' = analyzeRecursion(code.value)
    /\ dataStructures' = analyzeDataStructures(code.value)
    /\ pc' = "classify"
    /\ UNCHANGED <<code, complexity, description, details, report>>
    /\ UNCHANGED notAnalysis

\* code.split throws on a value that is not a string: the catch block
Catch ==
    /\ pc = "helpers"
    /\ code.type # "string"
    /\ report' = FailureReport
    /\ pc' = "returned"
    /\ UNCHANGED <<code, nestedLoops, recursion, dataStructures,
                   complexity, description, details>>
    /\ UNCHANGED notAnalysis

\* Classify with the loop depth consulted before the recursion result
ClassifyLoopsFirst ==
    /\ pc = "classify"
    /\ IF nestedLoops.count >= 3
       THEN /\ complexity' = "O(n³)"
            /\ description' = "Cubic time - three nested loops"
            /\ details' = Append(details, ToString(nestedLoops.count)
                                            \o " levels of nested loops detected")
       ELSE IF nestedLoops.count = 2
       THEN /\ complexity' = "O(n²)"
            /\ description' = "Quadratic time - two nested loops"
            /\ details' = Append(details, "Nested loops detected - quadratic growth")
       ELSE IF nestedLoops.count = 1
       THEN /\ complexity' = "O(n)"
            /\ description' = "Linear time - single loop"
            /\ details' = Append(details, "Single loop detected - linear growth")
       ELSE IF recursion.hasRecursion
       THEN IF recursion.type = "fibonacci" \/ recursion.type = "exponential"
            THEN /\ complexity' = "O(2^n)"
                 /\ description' = "Exponential time - exponential growth with input"
                 /\ details' = details
                       \o <<"Recursive function with multiple calls per recursion",
                            "Consider using dynamic programming for optimization">>
            ELSE IF recursion.type = "linear"
            THEN /\ complexity' = "O(n)"
                 /\ description' = "Linear time - single recursive call"
                 /\ details' = Append(details, "Linear recursion detected")
            ELSE IF recursion.type = "factorial"
            THEN /\ complexity' = "O(n!)"
                 /\ description' = "Factorial time - extremely slow for large inputs"
                 /\ details' = Append(details, "Factorial algorithm detected")
            ELSE UNCHANGED <<complexity, description, details>>
       ELSE UNCHANGED <<complexity, description, details>>
    /\ pc' = "sort"
    /\ UNCHANGED <<code, nestedLoops, recursion, dataStructures, report>>
    /\ UNCHANGED notAnalysis

\* the if / else-if chain over recursion and nestedLoops.count
Classify ==
    /\ pc = "classify"
    /\ IF recursion.hasRecursion
       THEN IF recursion.type = "fibonacci" \/ recursion.type = "exponential"
            THEN /\ complexity' = "O(2^n)"
                 /\ description' = "Exponential time - exponential growth with input"
                 /\ details' = details
                       \o <<"Recursive function with multiple calls per recursion",
                            "Consider using dynamic programming for optimization">>
            ELSE IF recursion.type = "linear"
            THEN /\ complexity' = "O(n)"
                 /\ description' = "Linear time - single recursive call"
                 /\ details' = Append(details, "Linear recursion detected")
            ELSE IF recursion.type = "factorial"
            THEN /\ complexity' = "O(n!)"
                 /\ description' = "Factorial time - extremely slow for large inputs"
                 /\ details' = Append(details, "Factorial algorithm detected")
            ELSE UNCHANGED <<complexity, description, details>>
       ELSE IF nestedLoops.count >= 3
       THEN /\ complexity' = "O(n³)"
            /\ description' = "Cubic time - three nested loops"
            /\ details' = Append(details, ToString(nestedLoops.count)
                                            \o " levels of nested loops detected")
       ELSE IF nestedLoops.count = 2
       THEN /\ complexity' = "O(n²)"
            /\ description' = "Quadratic time - two nested loops"
            /\ details' = Append(details, "Nested loops detected - quadratic growth")
       ELSE IF nestedLoops.count = 1
       THEN /\ complexity' = "O(n)"
            /\ description' = "Linear time - single loop"
            /\ details' = Append(details, "Single loop detected - linear growth")
       ELSE UNCHANGED <<complexity, description, details>>
    /\ pc' = "sort"
    /\ UNCHANGED <<code, nestedLoops, recursion, dataStructures, report>>
    /\ UNCHANGED notAnalysis

\* the condition of the sort step
SortCondition(text) == includes(text, "sort(") \/ includes(text, ".sort")

\* CheckSort with details replaced by the sort detail
CheckSortResetsDetails ==
    /\ pc = "sort"
    /\ IF SortCondition(code.value)
       THEN /\ complexity' = "O(n log n)"
            /\ description' = "Linearithmic time - efficient sorting"
            /\ details' = <<"Built-in sorting algorithm detected">>
       ELSE UNCHANGED <<complexity, description, details>>
    /\ pc' = "search"
    /\ UNCHANGED <<code, nestedLoops, recursion, dataStructures, report>>
    /\ UNCHANGED notAnalysis

\* CheckSort guarded by the default class, as the search step is
CheckSortIfDefault ==
    /\ pc = "sort"
    /\ IF SortCondition(code.value) /\ complexity = "O(1)"
       THEN /\ complexity' = "O(n log n)"
            /\ description' = "Linearithmic time - efficient sorting"
            /\ details' = Append(details, "Built-in sorting algorithm detected")
       ELSE UNCHANGED <<complexity, description, details>>
    /\ pc' = "search"
    /\ UNCHANGED <<code, nestedLoops, recursion, dataStructures, report>>
    /\ UNCHANGED notAnalysis

\* Check for sorting algorithms
CheckSort ==
    /\ pc = "sort"
    /\ IF SortCondition(code.value)
       THEN /\ complexity' = "O(n log n)"
            /\ description' = "Linearithmic time - efficient sorting"
            /\ details' = Append(details, "Built-in sorting algorithm detected")
       ELSE UNCHANGED <<complexity, description, details>>
    /\ pc' = "search"
    /\ UNCHANGED <<code, nestedLoops, recursion, dataStructures, report>>
    /\ UNCHANGED notAnalysis

\* the condition of the search step
SearchCondition(text) == includes(text, "in ") /\ includes(text, "list")

\* CheckSearch without the test that the class is still the default
CheckSearchAnyClass ==
    /\ pc = "search"
    /\ IF SearchCondition(code.value)
       THEN /\ complexity' = "O(n)"
            /\ description' = "Linear time - list search"
            /\ details' = Append(details, "Linear search in list detected")
       ELSE UNCHANGED <<complexity, description, details>>
    /\ pc' = "structures"
    /\ UNCHANGED <<code, nestedLoops, recursion, dataStructures, report>>
    /\ UNCHANGED notAnalysis

\* Check for search operations
CheckSearch ==
    /\ pc = "search"
    /\ IF SearchCondition(code.value) /\ complexity = "O(1)"
       THEN /\ complexity' = "O(n)"
            /\ description' = "Linear time - list search"
            /\ details' = Append(details, "Linear search in list detected")
       ELSE UNCHANGED <<complexity, description, details>>
    /\ pc' = "structures"
    /\ UNCHANGED <<code, nestedLoops, recursion, dataStructures, report>>
    /\ UNCHANGED notAnalysis

\* Data structure considerations
NoteDataStructures ==
    /\ pc = "structures"
    /\ IF Len(dataStructures) > 0
       THEN details' = Append(details, "Data structures used: "
                                         \o join(dataStructures, ", "))
       ELSE UNCHANGED details
    /\ pc' = "return"
    /\ UNCHANGED <<code, nestedLoops, recursion, dataStructures,
                   complexity, description, report>>
    /\ UNCHANGED notAnalysis

\* the return statement of the try block
Return ==
    /\ pc = "return"
    /\ report' = TryReport(complexity, description, details, nestedLoops)
    /\ pc' = "returned"
    /\ UNCHANGED <<code, nestedLoops, recursion, dataStructures,
                   complexity, description, details>>
    /\ UNCHANGED notAnalysis

\* inputs of a further call: the same value again, a one-line text, or a
\* value that is not a string
Reruns(v) == {v, NullValue} \cup {StringValue(l) : l \in Lines}

\* the next call of analyzeComplexity
Call ==
    /\ pc = "returned"
    /\ \E v \in Reruns(code) :
          /\ code' = v
          /\ pc' = "helpers"
          /\ complexity' = "O(1)"
          /\ description' = "Constant time - basic operations"
          /\ details' = <<>>
          /\ nestedLoops' = NoResult
          /\ recursion' = NoResult
          /\ dataStructures' = NoResult
          /\ report' = NoReport
    /\ UNCHANGED notAnalysis

-----------------------------------------------------------------------------
(* generateComplexityData, one iteration of the for loop at a time *)

\* a whole number in thousandths
Thousandths(k) == k * 1000

\* Math.log2(m) for m in 1..10, in thousandths (truncated)
Log2 == <<0, 1000, 1584, 2000, 2321, 2584, 2807, 3000, 3169, 3321>>

RECURSIVE Pow2(_)
\* Math.pow(2, k)
Pow2(k) == IF k <= 0 THEN 1 ELSE 2 * Pow2(k - 1)

RECURSIVE factorial(_)
factorial(k) == IF k <= 1 THEN 1 ELSE k * factorial(k - 1)

\* CurveValue with the constant curve at 0
CurveValueConstantZero(c, m) ==
    CASE c = "O(1)"       -> Thousandths(0)
      [] c = "O(log n)"   -> Log2[m]
      [] c = "O(n)"       -> Thousandths(m)
      [] c = "O(n log n)" -> m * Log2[m]
      [] c = "O(n²)"      -> Thousandths(m * m)
      [] c = "O(n³)"      -> Thousandths(m * m * m)
      [] c = "O(2^n)"     -> Thousandths(Pow2(Min(m, 6)))
      [] c = "O(n!)"      -> Thousandths(factorial(Min(m, 6)))
      [] OTHER            -> Thousandths(m)

\* CurveValue with the clamp at 7
CurveValueClampSeven(c, m) ==
    CASE c = "O(1)"       -> Thousandths(1)
      [] c = "O(log n)"   -> Log2[m]
      [] c = "O(n)"       -> Thousandths(m)
      [] c = "O(n log n)" -> m * Log2[m]
      [] c = "O(n²)"      -> Thousandths(m * m)
      [] c = "O(n³)"      -> Thousandths(m * m * m)
      [] c = "O(2^n)"     -> Thousandths(Pow2(Min(m, 7)))
      [] c = "O(n!)"      -> Thousandths(factorial(Min(m, 7)))
      [] OTHER            -> Thousandths(m)

\* CurveValue without the limit of 6 on the exponent
CurveValueUnlimitedPower(c, m) ==
    CASE c = "O(1)"       -> Thousandths(1)
      [] c = "O(log n)"   -> Log2[m]
      [] c = "O(n)"       -> Thousandths(m)
      [] c = "O(n log n)" -> m * Log2[m]
      [] c = "O(n²)"      -> Thousandths(m * m)
      [] c = "O(n³)"      -> Thousandths(m * m * m)
      [] c = "O(2^n)"     -> Thousandths(Pow2(m))
      [] c = "O(n!)"      -> Thousandths(factorial(Min(m, 6)))
      [] OTHER            -> Thousandths(m)

\* the switch statement: y for the label c at m, in thousandths
CurveValue(c, m) ==
    CASE c = "O(1)"       -> Thousandths(1)
      [] c = "O(log n)"   -> Log2[m]
      [] c = "O(n)"       -> Thousandths(m)
      [] c = "O(n log n)" -> m * Log2[m]
      [] c = "O(n²)"      -> Thousandths(m * m)
      [] c = "O(n³)"      -> Thousandths(m * m * m)
      [] c = "O(2^n)"     -> Thousandths(Pow2(Min(m, 6)))
      [] c = "O(n!)"      -> Thousandths(factorial(Min(m, 6)))
      [] OTHER            -> Thousandths(m)

\* CurvePoint with x counted from 0
CurvePointFromZero(c, m) == [x |-> m - 1, y |-> Min(CurveValue(c, m), Thousandths(1000))]

\* the point pushed for m: { x: n, y: Math.min(y, 1000) }
CurvePoint(c, m) == [x |-> m, y |-> Min(CurveValue(c, m), Thousandths(1000))]

RECURSIVE maxY(_)
\* Math.max(...data.map(d => d.y)) of ComplexityGraph; -Infinity, here -1,
\* for no points
maxY(d) == IF Len(d) = 0 THEN 0 - 1 ELSE Max(Head(d).y, maxY(Tail(d)))

\* labels the generator is called with: those of the switch, the failure
\* label of analyzeComplexity and two labels the switch does not know
Labels ==
    {"O(1)", "O(log n)", "O(n)", "O(n log n)", "O(n²)", "O(n³)", "O(2^n)",
     "O(n!)", "O(?)", "O(n^2)", ""}

NoCurve == [label |-> "none", data |-> <<>>]

\* data.push inside the loop
CurveStep ==
    /\ gpc = "loop"
    /\ n <= 10
    /\ data' = Append(data, CurvePoint(label, n))
    /\ n' = n + 1
    /\ UNCHANGED <<label, gpc, firstCurve>>
    /\ UNCHANGED notCurve

\* return data
CurveReturn ==
    /\ gpc = "loop"
    /\ ~(n <= 10)
    /\ gpc' = "returned"
    /\ UNCHANGED <<label, n, data, firstCurve>>
    /\ UNCHANGED notCurve

\* the next call of generateComplexityData, with any label
CurveCall ==
    /\ gpc = "returned"
    /\ \E c \in Labels :
          /\ label' = c
          /\ n' = 1
          /\ data' = <<>>
          /\ gpc' = "loop"
    /\ firstCurve' = IF firstCurve = NoCurve
                     THEN [label |-> label, data |-> data]
                     ELSE firstCurve
    /\ UNCHANGED notCurve

-----------------------------------------------------------------------------
(* analyzeNestedLoops, one line of the for loop at a time *)

\* the body of the for loop run on the next line
ScanStep ==
    /\ spc = "loop"
    /\ lineIndex < Len(lines)
    /\ LET st == ScanLine([currentNesting |-> currentNesting,
                           maxNesting     |-> maxNesting],
                          lines[lineIndex + 1])
       IN  /\ currentNesting' = st.currentNesting
           /\ maxNesting' = st.maxNesting
           /\ peakNesting' = Max(peakNesting, st.currentNesting)
    /\ lineIndex' = lineIndex + 1
    /\ UNCHANGED <<lines, spc>>
    /\ UNCHANGED notScan

\* return { count: maxNesting }
ScanReturn ==
    /\ spc = "loop"
    /\ lineIndex = Len(lines)
    /\ spc' = "returned"
    /\ UNCHANGED <<lines, lineIndex, currentNesting, maxNesting, peakNesting>>
    /\ UNCHANGED notScan

\* the next call of analyzeNestedLoops, on a one-line text
ScanCall ==
    /\ spc = "returned"
    /\ \E l \in Lines :
          /\ lines' = split(l)
          /\ lineIndex' = 0
          /\ currentNesting' = 0
          /\ maxNesting' = 0
          /\ peakNesting' = 0
          /\ spc' = "loop"
    /\ UNCHANGED notScan

-----------------------------------------------------------------------------
(* The editor component: the effect that loads pyodide, and runCode *)

\* programs the editor holds
Programs ==
    {"print(1)", "import time; time.sleep(9); print(1)", "import sys; sys.exit()"}

\* values runPythonAsync of the wrapped program resolves with: the text
\* _out + _err, or no value
Results(c) ==
    IF c = "import sys; sys.exit()"
    THEN {[type |-> "string", value |-> ""], [type |-> "undefined", value |-> ""]}
    ELSE {[type |-> "string", value |-> "1\n"]}

\* errors runPythonAsync rejects with
RunErrors == {[message |-> "KeyboardInterrupt"]}

\* errors loadPyodide rejects with, as String(err)
LoadErrors == {"Error: Failed to fetch pyodide.asm.wasm"}

\* String(result ?? "")
ResultText(r) == IF r.type = "undefined" THEN "" ELSE r.value

\* String(err?.message ?? err)
ErrorText(e) == e.message

TimeoutMessage == "Execution timed out (approx)."

NotLoadedMessage == "Pyodide not loaded yet."

ScriptErrorText == "Error: Failed to load pyodide script"

HistoryLimit == 10

Slots == 1..MaxInFlight

\* no call in the slot
FreeRun == [code |-> "", race |-> "none", promise |-> "none", timer |-> "none"]

\* a call that has just reached the await of Promise.race
StartedRun(c) ==
    [code |-> c, race |-> "pending", promise |-> "pending", timer |-> "armed"]

RECURSIVE filter(_, _)
\* prev.filter(item => item !== c)
filter(prev, c) ==
    IF Len(prev) = 0 THEN <<>>
    ELSE IF Head(prev) # c THEN <<Head(prev)>> \o filter(Tail(prev), c)
    ELSE filter(Tail(prev), c)

\* a.slice(0, k)
slice(a, k) == SubSeq(a, 1, Min(Len(a), k))

\* newHistory without the filter
newHistoryNoFilter(prev, c) == slice(<<c>> \o prev, HistoryLimit)

\* the updater passed to setExecutionHistory
newHistory(prev, c) == slice(<<c>> \o filter(prev, c), HistoryLimit)

\* runCode up to the await: the early return without pyodide, or the state
\* updates and the start of the race between runPythonAsync and the timer
runCode ==
    IF ~pyodide
    THEN /\ output' = NotLoadedMessage
         /\ UNCHANGED <<running, executionHistory, runs>>
    ELSE /\ \E i \in Slots : runs[i] = FreeRun
         /\ LET i == CHOOSE k \in Slots :
                        /\ runs[k] = FreeRun
                        /\ \A j \in Slots : runs[j] = FreeRun => k <= j
            IN  runs' = [runs EXCEPT ![i] = StartedRun(pythonCode)]
         /\ running' = TRUE
         /\ output' = ""
         /\ executionHistory' = newHistory(executionHistory, pythonCode)

\* the Run button, disabled={loadingPyodide || running}
ClickRun ==
    /\ mounted
    /\ ~(loadingPyodide \/ running)
    /\ runCode
    /\ UNCHANGED <<pyodide, loadingPyodide, lpc, mounted, pythonCode>>
    /\ UNCHANGED notRun

\* the keydown handler: Ctrl/Cmd+Enter calls runCode
CtrlEnter ==
    /\ mounted
    /\ runCode
    /\ UNCHANGED <<pyodide, loadingPyodide, lpc, mounted, pythonCode>>
    /\ UNCHANGED notRun

\* runPythonAsync resolves; when the race is still open the await returns
\* the result, then setOutput and the finally block run
PromiseResolves(i) ==
    /\ runs[i].promise = "pending"
    /\ \E r \in Results(runs[i].code) :
          IF runs[i].race = "pending"
          THEN /\ output' = ResultText(r)
               /\ running' = FALSE
               /\ runs' = [runs EXCEPT ![i].race = "settled",
                                       ![i].promise = "settled"]
          ELSE /\ runs' = [runs EXCEPT ![i] = FreeRun]
               /\ UNCHANGED <<output, running>>
    /\ UNCHANGED <<pyodide, loadingPyodide, lpc, mounted, pythonCode,
                   executionHistory>>
    /\ UNCHANGED notRun

\* runPythonAsync rejects; when the race is still open the await throws,
\* then the catch and the finally block run
PromiseRejects(i) ==
    /\ runs[i].promise = "pending"
    /\ \E e \in RunErrors :
          IF runs[i].race = "pending"
          THEN /\ output' = ErrorText(e)
               /\ running' = FALSE
               /\ runs' = [runs EXCEPT ![i].race = "settled",
                                       ![i].promise = "settled"]
          ELSE /\ runs' = [runs EXCEPT ![i] = FreeRun]
               /\ UNCHANGED <<output, running>>
    /\ UNCHANGED <<pyodide, loadingPyodide, lpc, mounted, pythonCode,
                   executionHistory>>
    /\ UNCHANGED notRun

\* timeoutMs have passed since setTimeout was called
DeadlineElapses(i) ==
    /\ runs[i].timer = "armed"
    /\ runs' = [runs EXCEPT ![i].timer = "due"]
    /\ UNCHANGED <<pyodide, loadingPyodide, lpc, mounted, pythonCode, output,
                   running, executionHistory>>
    /\ UNCHANGED notRun

\* the event loop runs the timer callback: rej(new Error(...)); when the
\* race is still open the await throws, then the catch and the finally
\* block run
TimerFires(i) ==
    /\ runs[i].timer = "due"
    /\ IF runs[i].race = "pending"
       THEN /\ output' = ErrorText([message |-> TimeoutMessage])
            /\ running' = FALSE
            /\ runs' = [runs EXCEPT ![i].race = "settled",
                                    ![i].timer = "fired"]
       ELSE /\ runs' = [runs EXCEPT ![i] = FreeRun]
            /\ UNCHANGED <<output, running>>
    /\ UNCHANGED <<pyodide, loadingPyodide, lpc, mounted, pythonCode,
                   executionHistory>>
    /\ UNCHANGED notRun

\* onChange of the editor: setCurrentCode(val ?? "")
EditCode ==
    /\ mounted
    /\ \E c \in Programs : pythonCode' = c
    /\ UNCHANGED <<pyodide, loadingPyodide, lpc, mounted, output, running,
                   executionHistory, runs>>
    /\ UNCHANGED notRun

\* the k-th of the programs written one after the other
Program(k) == "print(" \o ToString(k) \o ")"

\* how many of the programs have been written: the history holds the
\* latest of them
ProgramsWritten ==
    CHOOSE k \in 1..MaxPrograms :
        /\ \E i \in 1..Len(executionHistory) : executionHistory[i] = Program(k)
        /\ \A j \in (k + 1)..MaxPrograms :
              \A i \in 1..Len(executionHistory) : executionHistory[i] # Program(j)

\* onChange of the editor, by a user who has run the program in the editor,
\* has waited for its runs, and writes the next new one
TypeNextProgram ==
    /\ mounted
    /\ \A i \in Slots : runs[i] = FreeRun
    /\ executionHistory # <<>>
    /\ Head(executionHistory) = pythonCode
    /\ ProgramsWritten < MaxPrograms
    /\ pythonCode' = Program(ProgramsWritten + 1)
    /\ UNCHANGED <<pyodide, loadingPyodide, lpc, mounted, output, running,
                   executionHistory, runs>>
    /\ UNCHANGED notRun

\* onChange of the editor, by a user who has run the program in the editor,
\* has waited for its runs, and goes back to the first one
TypeFirstProgram ==
    /\ mounted
    /\ \A i \in Slots : runs[i] = FreeRun
    /\ executionHistory # <<>>
    /\ Head(executionHistory) = pythonCode
    /\ pythonCode # Program(1)
    /\ pythonCode' = Program(1)
    /\ UNCHANGED <<pyodide, loadingPyodide, lpc, mounted, output, running,
                   executionHistory, runs>>
    /\ UNCHANGED notRun

\* the Clear badge of the output panel: setOutput("")
ClearOutput ==
    /\ mounted
    /\ output' = ""
    /\ UNCHANGED <<pyodide, loadingPyodide, lpc, mounted, pythonCode, running,
                   executionHistory, runs>>
    /\ UNCHANGED notRun

\* the load effect starts: setLoadingPyodide(true), then the script tag is
\* awaited unless window.loadPyodide is already there
LoadEffect ==
    /\ lpc = "effect"
    /\ loadingPyodide' = TRUE
    /\ \E present \in BOOLEAN :
          lpc' = IF present THEN "loadPyodide" ELSE "script"
    /\ UNCHANGED <<pyodide, mounted, pythonCode, output, running,
                   executionHistory, runs>>
    /\ UNCHANGED notRun

\* s.onload: the script promise resolves and loadPyodide is called
ScriptOnload ==
    /\ lpc = "script"
    /\ lpc' = "loadPyodide"
    /\ UNCHANGED <<pyodide, loadingPyodide, mounted, pythonCode, output,
                   running, executionHistory, runs>>
    /\ UNCHANGED notRun

\* s.onerror: the script promise rejects; catch, then finally
ScriptOnerror ==
    /\ lpc = "script"
    /\ output' = ScriptErrorText
    /\ loadingPyodide' = FALSE
    /\ lpc' = "done"
    /\ UNCHANGED <<pyodide, mounted, pythonCode, running, executionHistory,
                   runs>>
    /\ UNCHANGED notRun

\* LoadPyodideResolves with the return on !mounted leaving the function
\* before the finally block
LoadPyodideResolvesEarlyReturn ==
    /\ lpc = "loadPyodide"
    /\ pyodide' = IF mounted THEN TRUE ELSE pyodide
    /\ loadingPyodide' = IF mounted THEN FALSE ELSE loadingPyodide
    /\ lpc' = "done"
    /\ UNCHANGED <<mounted, pythonCode, output, running, executionHistory,
                   runs>>
    /\ UNCHANGED notRun

\* loadPyodide resolves: return when no longer mounted, else setPyodide(py);
\* the finally block runs in both cases
LoadPyodideResolves ==
    /\ lpc = "loadPyodide"
    /\ pyodide' = IF mounted THEN TRUE ELSE pyodide
    /\ loadingPyodide' = FALSE
    /\ lpc' = "done"
    /\ UNCHANGED <<mounted, pythonCode, output, running, executionHistory,
                   runs>>
    /\ UNCHANGED notRun

\* loadPyodide rejects; catch, then finally
LoadPyodideRejects ==
    /\ lpc = "loadPyodide"
    /\ \E e \in LoadErrors : output' = e
    /\ loadingPyodide' = FALSE
    /\ lpc' = "done"
    /\ UNCHANGED <<pyodide, mounted, pythonCode, running, executionHistory,
                   runs>>
    /\ UNCHANGED notRun

\* the cleanup of the effects: mounted = false, the keydown handler removed
Unmount ==
    /\ mounted
    /\ mounted' = FALSE
    /\ UNCHANGED <<pyodide, loadingPyodide, lpc, pythonCode, output, running,
                   executionHistory, runs>>
    /\ UNCHANGED notRun

-----------------------------------------------------------------------------
(* The theme selectors and getActualEditorTheme *)

\* the ids of EDITOR_THEMES
EditorThemes == {"auto", "vs-dark", "vs-light", "hc-black", "hc-light"}

\* the values of the application theme selector
AppThemes == {"light", "dark", "system"}

\* Auto-link editor theme with system theme when set to auto
getActualEditorTheme ==
    IF editorTheme = "auto"
    THEN IF theme = "dark" THEN "vs-dark" ELSE "vs-light"
    ELSE editorTheme

\* onValueChange of the application theme selector: setTheme
SetTheme ==
    /\ \E t \in AppThemes : theme' = t
    /\ UNCHANGED <<systemDark, editorTheme, monacoTheme>>
    /\ UNCHANGED notTheme

\* onValueChange of the editor theme selector: setEditorTheme
SetEditorTheme ==
    /\ \E e \in EditorThemes : editorTheme' = e
    /\ UNCHANGED <<theme, systemDark, monacoTheme>>
    /\ UNCHANGED notTheme

\* the colour scheme of the system changes; theme, the setting, does not
SystemSchemeChanges ==
    /\ systemDark' = ~systemDark
    /\ UNCHANGED <<theme, editorTheme, monacoTheme>>
    /\ UNCHANGED notTheme

\* next-themes mounts: useTheme() gives undefined before, the stored
\* setting after
ThemeMounts ==
    /\ theme = "undefined"
    /\ \E t \in AppThemes : theme' = t
    /\ UNCHANGED <<systemDark, editorTheme, monacoTheme>>
    /\ UNCHANGED notTheme

\* the component renders after a change: theme={getActualEditorTheme()}
RenderEditor ==
    /\ monacoTheme # getActualEditorTheme
    /\ monacoTheme' = getActualEditorTheme
    /\ UNCHANGED <<theme, systemDark, editorTheme>>
    /\ UNCHANGED notTheme

-----------------------------------------------------------------------------
(* Specifications *)

\* the selectors as first rendered with the default settings
ThemeIdle ==
    /\ theme = "undefined"
    /\ systemDark = FALSE
    /\ editorTheme = "auto"
    /\ monacoTheme = "vs-light"

\* the component as first rendered, the load effect not yet run
EditorIdle ==
    /\ pyodide = FALSE
    /\ loadingPyodide = TRUE
    /\ lpc = "effect"
    /\ mounted = TRUE
    /\ pythonCode = "print(1)"
    /\ output = ""
    /\ running = FALSE
    /\ executionHistory = <<>>
    /\ runs = [i \in Slots |-> FreeRun]

\* no call of analyzeNestedLoops is in progress
ScanIdle ==
    /\ lines = <<>>
    /\ lineIndex = 0
    /\ currentNesting = 0
    /\ maxNesting = 0
    /\ peakNesting = 0
    /\ spc = "idle"

\* no call of generateComplexityData is in progress
CurveIdle ==
    /\ label = ""
    /\ n = 1
    /\ data = <<>>
    /\ gpc = "idle"
    /\ firstCurve = NoCurve

\* no call of analyzeComplexity is in progress
AnalysisIdle ==
    /\ code = StringValue("")
    /\ pc = "idle"
    /\ complexity = "O(1)"
    /\ description = "Constant time - basic operations"
    /\ details = <<>>
    /\ nestedLoops = NoResult
    /\ recursion = NoResult
    /\ dataStructures = NoResult
    /\ report = NoReport

\* analyzeComplexity called on every input
Init ==
    (\E v \in Inputs : Enter(v)) /\ CurveIdle /\ ScanIdle /\ EditorIdle /\ ThemeIdle

Next ==
    \/ Helpers
    \/ Catch
    \/ Classify
    \/ CheckSort
    \/ CheckSearch
    \/ NoteDataStructures
    \/ Return
    \/ Call

Spec == Init /\ [][Next]_vars

\* generateComplexityData called with every label
CurveInit ==
    /\ AnalysisIdle
    /\ ScanIdle
    /\ EditorIdle
    /\ ThemeIdle
    /\ \E c \in Labels : label = c
    /\ n = 1
    /\ data = <<>>
    /\ gpc = "loop"
    /\ firstCurve = NoCurve

CurveNext ==
    \/ CurveStep
    \/ CurveReturn
    \/ CurveCall

CurveSpec == CurveInit /\ [][CurveNext]_vars

\* analyzeNestedLoops called on every text
ScanInit ==
    /\ AnalysisIdle
    /\ CurveIdle
    /\ EditorIdle
    /\ ThemeIdle
    /\ \E t \in Texts : lines = split(t)
    /\ lineIndex = 0
    /\ currentNesting = 0
    /\ maxNesting = 0
    /\ peakNesting = 0
    /\ spc = "loop"

ScanNext ==
    \/ ScanStep
    \/ ScanReturn
    \/ ScanCall

ScanSpec == ScanInit /\ [][ScanNext]_vars

\* the component mounted with every program in the editor
RunInit ==
    /\ AnalysisIdle
    /\ CurveIdle
    /\ ScanIdle
    /\ ThemeIdle
    /\ pyodide = FALSE
    /\ loadingPyodide = TRUE
    /\ lpc = "effect"
    /\ mounted = TRUE
    /\ \E c \in Programs : pythonCode = c
    /\ output = ""
    /\ running = FALSE
    /\ executionHistory = <<>>
    /\ runs = [i \in Slots |-> FreeRun]

RunNext ==
    \/ LoadEffect
    \/ ScriptOnload
    \/ ScriptOnerror
    \/ LoadPyodideResolves
    \/ LoadPyodideRejects
    \/ Unmount
    \/ EditCode
    \/ ClearOutput
    \/ ClickRun
    \/ CtrlEnter
    \/ \E i \in Slots : PromiseResolves(i)
    \/ \E i \in Slots : PromiseRejects(i)
    \/ \E i \in Slots : DeadlineElapses(i)
    \/ \E i \in Slots : TimerFires(i)

RunSpec == RunInit /\ [][RunNext]_vars

\* the component when the script promise and the loadPyodide promise
\* settle once they are pending
LoadSettlesSpec ==
    /\ RunInit
    /\ [][RunNext]_vars
    /\ WF_vars(ScriptOnload \/ ScriptOnerror)
    /\ WF_vars(LoadPyodideResolves \/ LoadPyodideRejects)

\* the component once pyodide has loaded, the first program in the editor
\* and the stored history empty
HistoryInit ==
    /\ AnalysisIdle
    /\ CurveIdle
    /\ ScanIdle
    /\ ThemeIdle
    /\ pyodide = TRUE
    /\ loadingPyodide = FALSE
    /\ lpc = "done"
    /\ mounted = TRUE
    /\ pythonCode = Program(1)
    /\ output = ""
    /\ running = FALSE
    /\ executionHistory = <<>>
    /\ runs = [i \in Slots |-> FreeRun]

HistoryNext ==
    \/ TypeNextProgram
    \/ TypeFirstProgram
    \/ ClickRun
    \/ CtrlEnter
    \/ \E i \in Slots : PromiseResolves(i)
    \/ \E i \in Slots : PromiseRejects(i)
    \/ \E i \in Slots : DeadlineElapses(i)
    \/ \E i \in Slots : TimerFires(i)

HistorySpec == HistoryInit /\ [][HistoryNext]_vars

\* the first render, with every stored editor theme and system scheme
ThemeInit ==
    /\ AnalysisIdle
    /\ CurveIdle
    /\ ScanIdle
    /\ EditorIdle
    /\ theme = "undefined"
    /\ systemDark \in BOOLEAN
    /\ editorTheme \in EditorThemes
    /\ monacoTheme = getActualEditorTheme

ThemeNext ==
    \/ ThemeMounts
    \/ SetTheme
    \/ SetEditorTheme
    \/ SystemSchemeChanges
    \/ RenderEditor

ThemeSpec == ThemeInit /\ [][ThemeNext]_vars

-----------------------------------------------------------------------------
(* Vocabulary of the claims *)

Returned == pc = "returned"

ReturnedOnText == pc = "returned" /\ code.type = "string"

\* the text contains a sort call, free-function form or method form
HasSortCall(text) == includes(text, "sort(") \/ includes(text, ".sort")

\* the text contains the list-membership idiom
HasMembershipIdiom(text) == includes(text, "in ") /\ includes(text, "list")

\* the line starts a loop
LoopStartLine(line) ==
    startsWith(trim(line), "for ") \/ startsWith(trim(line), "while ")

NoLoopStartLine(text) ==
    \A i \in 1..Len(split(text)) : ~LoopStartLine(split(text)[i])

\* the text of the function after its header
FunctionBody(text, funcName) ==
    LET sp == FuncSpan(text, funcName)
    IN  IF sp.from = 0 THEN "" ELSE SubSeq(text, sp.body, sp.to - 1)

\* the body of the function contains a call of the function
CallsItself(text, funcName) ==
    includes(FunctionBody(text, funcName), funcName \o "(")

NoRecursiveFunction(text) ==
    \A i \in 1..Len(functionNames(text)) :
        ~CallsItself(text, functionNames(text)[i])

\* the body of the function contains self-calls with n-1 and with n-2
TwoSelfCalls(text, funcName) ==
    /\ includes(FunctionBody(text, funcName), funcName \o "(n-1)")
    /\ includes(FunctionBody(text, funcName), funcName \o "(n-2)")

\* the text contains none of the container idioms
NoContainer(text) ==
    /\ ~includes(text, "[")
    /\ ~includes(text, "{")
    /\ ~includes(text, "list(")
    /\ ~includes(text, "dict(")
    /\ ~includes(text, "set(")
    /\ ~includes(text, "tuple(")

-----------------------------------------------------------------------------
(* Claims *)

\* C1: every returned report, the failure report included, has
\* worstCase = averageCase = complexity.
C1_CasesEqualClass ==
    Returned =>
        /\ report.worstCase = report.complexity
        /\ report.averageCase = report.complexity

\* a report whose class was overridden twice: recursion, then sort
C1_Witness ==
    /\ ReturnedOnText
    /\ recursion.hasRecursion
    /\ report.complexity = "O(n log n)"
    /\ report.worstCase = "O(n log n)"

\* C2: once the sort step has run on a text with a sort call the class is
\* O(n log n), whatever the recursion and loop steps had set before, and
\* that is the class returned.
C2_SortOverrides ==
    (code.type = "string" /\ HasSortCall(code.value)) =>
        /\ pc \in {"search", "structures", "return"} => complexity = "O(n log n)"
        /\ Returned => report.complexity = "O(n log n)"

\* a sort call next to an exponential recursion and a loop
C2_Witness ==
    /\ ReturnedOnText
    /\ HasSortCall(code.value)
    /\ recursion.type = "fibonacci"
    /\ nestedLoops.count >= 1
    /\ report.complexity = "O(n log n)"

\* C3: a text with no loop-start line, no function that calls itself, no
\* sort call and no list-membership idiom gets the class O(1).
C3_PlainTextIsConstant ==
    (/\ ReturnedOnText
     /\ NoLoopStartLine(code.value)
     /\ NoRecursiveFunction(code.value)
     /\ ~HasSortCall(code.value)
     /\ ~HasMembershipIdiom(code.value))
    => report.complexity = "O(1)"

\* C4 as stated: any function of the text whose body has self-calls with
\* n-1 and n-2 makes the recursion kind exponential and the class O(2^n),
\* when the text has no sort call.
C4_AnyFunctionExponential ==
    (/\ ReturnedOnText
     /\ ~HasSortCall(code.value)
     /\ \E i \in 1..Len(functionNames(code.value)) :
            TwoSelfCalls(code.value, functionNames(code.value)[i]))
    => /\ recursion.hasRecursion
       /\ recursion.type \in {"fibonacci", "exponential"}
       /\ report.complexity = "O(2^n)"

\* C4 amended: when the first function defined in the text has a body with
\* self-calls with n-1 and n-2, and the text has no sort call, the
\* recursion kind is exponential and the class is O(2^n), for every name.
C4_FirstFunctionExponential ==
    (/\ ReturnedOnText
     /\ ~HasSortCall(code.value)
     /\ Len(functionNames(code.value)) > 0
     /\ TwoSelfCalls(code.value, functionNames(code.value)[1]))
    => /\ recursion.hasRecursion
       /\ recursion.type \in {"fibonacci", "exponential"}
       /\ report.complexity = "O(2^n)"

\* the function f with both self-calls, and a multiplication by n as well
C4_Witness ==
    /\ ReturnedOnText
    /\ functionNames(code.value) = <<"f">>
    /\ TwoSelfCalls(code.value, "f")
    /\ includes(code.value, "n *")
    /\ report.complexity = "O(2^n)"

\* C5: a call whose analysis throws still returns, and returns the report
\* with class O(?), the generic description and the single detail line.
C5_FailureReport ==
    /\ pc \in {"helpers", "classify", "sort", "search", "structures",
                "return", "returned"}
    /\ Returned =>
          DOMAIN report = {"complexity", "description", "details",
                           "worstCase", "bestCase", "averageCase"}
    /\ (Returned /\ code.type # "string") =>
          /\ report.complexity = "O(?)"
          /\ report.description = "Unable to analyze complexity"
          /\ report.details = <<"Code analysis failed">>

\* a call on a value that is not a string has returned
C5_Witness == Returned /\ code.type # "string" /\ report.complexity = "O(?)"

\* C7: every y pushed by generateComplexityData lies in 0..1000, for every
\* label; at n = 10 the O(n²) curve has y = 100 and the O(2^n) curve has
\* y = 64.
C7_CurveRange ==
    /\ \A i \in 1..Len(data) :
          data[i].y >= 0 /\ data[i].y <= Thousandths(1000)
    /\ (label = "O(n²)" /\ Len(data) >= 10) => data[10].y = Thousandths(100)
    /\ (label = "O(2^n)" /\ Len(data) >= 10) => data[10].y = Thousandths(64)

\* the O(2^n) curve has been returned
C7_Witness == gpc = "returned" /\ label = "O(2^n)" /\ Len(data) = 10

\* C8: the points are pushed with x = 1, 2, ... in that order, the returned
\* sequence has exactly 10 of them, and a later call with the label of the
\* first call returns the sequence the first call returned.
C8_TenPointsInOrder ==
    /\ \A i \in 1..Len(data) : data[i].x = i
    /\ gpc = "returned" => Len(data) = 10
    /\ (gpc = "returned" /\ firstCurve.label = label) => data = firstCurve.data

\* a later call with the label of the first call has returned
C8_Witness ==
    /\ gpc = "returned"
    /\ firstCurve # NoCurve
    /\ firstCurve.label = label
    /\ label = "O(n log n)"

\* C9 as stated: bestCase is O(1) in every report returned, whichever
\* branch produced it.
C9_BestCaseAlwaysConstant == Returned => report.bestCase = "O(1)"

\* C9 amended: bestCase is O(1) in every report returned by the try block,
\* whatever the class; in the report of the catch block it is O(?).
C9_BestCaseConstantUnlessFailure ==
    /\ ReturnedOnText => report.bestCase = "O(1)"
    /\ (Returned /\ code.type # "string") => report.bestCase = "O(?)"

\* a report with a loop found and a class above O(1)
C9_Witness ==
    /\ ReturnedOnText
    /\ nestedLoops.count > 0
    /\ report.complexity = "O(n²)"
    /\ report.bestCase = "O(1)"

\* C10: a text with no signal and no container, such as print('hi'), gets
\* the class O(1) and an empty details list.
C10_PlainTextNoDetails ==
    (/\ ReturnedOnText
     /\ NoLoopStartLine(code.value)
     /\ NoRecursiveFunction(code.value)
     /\ ~HasSortCall(code.value)
     /\ ~HasMembershipIdiom(code.value)
     /\ NoContainer(code.value))
    => /\ report.complexity = "O(1)"
       /\ report.details = <<>>

\* the helper calls of analyzeComplexity have returned, on a text
Analysed ==
    /\ code.type = "string"
    /\ pc \in {"classify", "sort", "search", "structures", "return", "returned"}

\* the class the loop-nesting rules give for a depth
LoopClass(depth) ==
    IF depth >= 3 THEN "O(n³)"
    ELSE IF depth = 2 THEN "O(n²)"
    ELSE IF depth = 1 THEN "O(n)"
    ELSE "O(1)"

\* the functions of the text whose body calls the function, by position in
\* functionNames
SelfCalling(text) ==
    {i \in 1..Len(functionNames(text)) : CallsItself(text, functionNames(text)[i])}

\* the text of the function, header included
FunctionText(text, funcName) ==
    LET sp == FuncSpan(text, funcName)
    IN  IF sp.from = 0 THEN "" ELSE SubSeq(text, sp.from, sp.to - 1)

\* the first function of the text calls itself in its body and does not
\* match the exponential rule
FirstFunctionPlainRecursive(text) ==
    /\ Len(functionNames(text)) > 0
    /\ CallsItself(text, functionNames(text)[1])
    /\ ~includes(functionNames(text)[1], "fibonacci")
    /\ ~TwoSelfCalls(text, functionNames(text)[1])

\* the body has a self-call with n-1 and a multiplication written "n *"
DecrementAndMultiply(text, funcName) ==
    /\ includes(FunctionBody(text, funcName), funcName \o "(n-1)")
    /\ includes(FunctionBody(text, funcName), "n *")

\* C12: when no function of the text calls itself in its body,
\* analyzeRecursion reports no recursion and the class after the
\* recursion/loop step is the one of the loop-nesting rules.
C12_NoSelfCallNoRecursion ==
    (Analysed /\ NoRecursiveFunction(code.value)) =>
        /\ ~recursion.hasRecursion
        /\ recursion.type = "none"
        /\ pc = "sort" => complexity = LoopClass(nestedLoops.count)

\* C13: the result of analyzeRecursion is the classification of the first
\* function, in source order, that calls itself in its body; the functions
\* after it have no influence.
C13_FirstSelfCallingWins ==
    (Analysed /\ SelfCalling(code.value) # {}) =>
        LET first == CHOOSE i \in SelfCalling(code.value) :
                         \A j \in SelfCalling(code.value) : i <= j
        IN  /\ recursion.hasRecursion
            /\ recursion.type =
                  ClassifyFunction(code.value, functionNames(code.value)[first])

\* C14 as stated: a self-calling function outside the exponential rule is
\* Factorial exactly when its body has a self-call with n-1 and a
\* multiplication "n *", and Linear otherwise, the word factorial in its name
\* or body and a multiplication without the space notwithstanding.
C14_FactorialOnlyByShape ==
    (Analysed /\ FirstFunctionPlainRecursive(code.value)) =>
        recursion.type =
            IF DecrementAndMultiply(code.value, functionNames(code.value)[1])
            THEN "factorial" ELSE "linear"

\* C14 amended: such a function is Factorial exactly when its text contains
\* the word factorial, or its body has a self-call with n-1 and a
\* multiplication "n *"; it is Linear otherwise, a multiplication without
\* the space included.
C14_FactorialByWordOrShape ==
    (Analysed /\ FirstFunctionPlainRecursive(code.value)) =>
        recursion.type =
            IF \/ includes(FunctionText(code.value, functionNames(code.value)[1]),
                           "factorial")
               \/ DecrementAndMultiply(code.value, functionNames(code.value)[1])
            THEN "factorial" ELSE "linear"

\* a self-calling function named factorial, with no n-1 and no multiplication
C14_Witness ==
    /\ Analysed
    /\ FirstFunctionPlainRecursive(code.value)
    /\ functionNames(code.value)[1] = "factorial"
    /\ ~DecrementAndMultiply(code.value, "factorial")
    /\ recursion.type = "factorial"

\* the class, description and details that a recursion kind stands for
RecursionOutcome(kind) ==
    IF kind = "fibonacci" \/ kind = "exponential"
    THEN <<"O(2^n)", "Exponential time - exponential growth with input",
           <<"Recursive function with multiple calls per recursion",
             "Consider using dynamic programming for optimization">> >>
    ELSE IF kind = "linear"
    THEN <<"O(n)", "Linear time - single recursive call",
           <<"Linear recursion detected">> >>
    ELSE <<"O(n!)", "Factorial time - extremely slow for large inputs",
           <<"Factorial algorithm detected">> >>

\* C15: when analyzeRecursion reports recursion, the class, the description
\* and the details before the sort and membership steps are those of the
\* recursion kind alone, whatever the loop-nesting depth.
C15_RecursionKindAlone ==
    (pc = "sort" /\ code.type = "string" /\ recursion.hasRecursion) =>
        <<complexity, description, details>> = RecursionOutcome(recursion.type)

\* recursion is reported on a text with two nested loops
C15_Witness ==
    /\ pc = "sort"
    /\ code.type = "string"
    /\ recursion.hasRecursion
    /\ nestedLoops.count >= 2
    /\ complexity = "O(n)"

C19_MembershipOnlyOnDefault ==
    [][pc = "search" =>
          IF HasMembershipIdiom(code.value) /\ complexity = "O(1)"
          THEN /\ complexity' = "O(n)"
               /\ description' = "Linear time - list search"
               /\ details' = Append(details, "Linear search in list detected")
          ELSE /\ complexity' = complexity
               /\ description' = description
               /\ details' = details]_vars

\* the membership step has passed over a text with the idiom and a sort call
C19_Witness ==
    /\ pc = "structures"
    /\ code.type = "string"
    /\ HasMembershipIdiom(code.value)
    /\ complexity = "O(n log n)"

\* the scan is about to process a line
ScanningLine == spc = "loop" /\ lineIndex < Len(lines)

\* C17: a step of the line scan decrements the counter only on a blank line
\* or on a non-indented line seen while the counter is positive; an
\* indented, non-blank, non-loop line leaves the counter unchanged.
C17_IndentedLineKeepsDepth ==
    [][ScanningLine =>
          LET line == lines[lineIndex + 1]
          IN  /\ currentNesting' < currentNesting =>
                    \/ trim(line) = ""
                    \/ ~startsWith(line, " ") /\ currentNesting > 0
              /\ (/\ startsWith(line, " ")
                  /\ trim(line) # ""
                  /\ ~LoopStartLine(line)) => currentNesting' = currentNesting]_vars

\* the loop-start lines among the lines processed so far
LoopStartsSeen ==
    Cardinality({i \in 1..lineIndex : LoopStartLine(lines[i])})

\* C18: throughout the line scan 0 <= currentNesting <= maxNesting,
\* maxNesting is the largest value currentNesting has reached and is at most
\* the number of loop-start lines seen; a step of the scan never decreases
\* maxNesting and changes currentNesting by at most 1.
C18_ScanCounters ==
    /\ [](/\ 0 <= currentNesting
          /\ currentNesting <= maxNesting
          /\ maxNesting = peakNesting
          /\ maxNesting <= LoopStartsSeen)
    /\ [][spc = "loop" =>
             /\ maxNesting' >= maxNesting
             /\ currentNesting' - currentNesting \in {-1, 0, 1}]_vars

\* a scan has returned depth 2 after leaving the inner loop
C18_Witness ==
    /\ spc = "returned"
    /\ maxNesting = 2
    /\ currentNesting < maxNesting
    /\ LoopStartsSeen = 2

\* the values the labels stand for at n = 1..10
GrowthTable(c) ==
    CASE c = "O(1)"   -> <<1, 1, 1, 1, 1, 1, 1, 1, 1, 1>>
      [] c = "O(n²)"  -> <<1, 4, 9, 16, 25, 36, 49, 64, 81, 100>>
      [] c = "O(n³)"  -> <<1, 8, 27, 64, 125, 216, 343, 512, 729, 1000>>
      [] c = "O(2^n)" -> <<2, 4, 8, 16, 32, 64, 64, 64, 64, 64>>
      [] c = "O(n!)"  -> <<1, 2, 6, 24, 120, 720, 720, 720, 720, 720>>
      [] OTHER        -> <<1, 2, 3, 4, 5, 6, 7, 8, 9, 10>>

\* C20: for n in 1..10 the y values are 1, n, n*n, n*n*n, 2^min(n,6),
\* factorial(min(n,6)), and n for a label the switch does not know; the
\* exponential and factorial curves stay at 64 and 720 from n = 6 on, and
\* only O(n³) at n = 10 reaches 1000.
C20_GrowthValues ==
    /\ label \notin {"O(log n)", "O(n log n)"} =>
          \A i \in 1..Len(data) : data[i].y = GrowthTable(label)[i] * 1000
    /\ \A i \in 1..Len(data) :
          data[i].y >= 1000 * 1000 <=> (label = "O(n³)" /\ i = 10)

\* the factorial curve has been returned
C20_Witness ==
    /\ gpc = "returned"
    /\ label = "O(n!)"
    /\ data[6].y = data[10].y
    /\ data[10].y = 720 * 1000

\* C11: when a runCode call ends with the interpreter call not settled by
\* the time timeoutMs had passed, the output it sets is the timeout error
\* 'Execution timed out (approx).'.
C11_TimeoutAfterBudget ==
    [][\A i \in Slots :
          (/\ runs[i].race = "pending"
           /\ runs[i].promise = "pending"
           /\ runs[i].timer = "due"
           /\ runs'[i].race = "settled") => output' = TimeoutMessage]_vars

\* the position of a container kind in the enumeration List, Dictionary,
\* Set, Tuple; 0 for anything else
KindRank(k) ==
    CASE k = "List"       -> 1
      [] k = "Dictionary" -> 2
      [] k = "Set"        -> 3
      [] k = "Tuple"      -> 4
      [] OTHER            -> 0

\* the detail line that names the container kinds
IsStructuresLine(d) == startsWith(d, "Data structures used: ")

\* C21: the kinds returned by analyzeDataStructures are container kinds in
\* the order List, Dictionary, Set, Tuple, none twice, whatever the order
\* of the idioms in the text; details has the 'Data structures used: ...'
\* line exactly when that result is non-empty, and then as its last element.
C21_KindsInFixedOrder ==
    /\ Analysed =>
          /\ \A i \in 1..Len(dataStructures) : KindRank(dataStructures[i]) > 0
          /\ \A i, j \in 1..Len(dataStructures) :
                i < j => KindRank(dataStructures[i]) < KindRank(dataStructures[j])
    /\ (code.type = "string" /\ pc \in {"return", "returned"}) =>
          /\ \A i \in 1..Len(details) :
                IsStructuresLine(details[i]) <=>
                    (i = Len(details) /\ dataStructures # <<>>)
          /\ dataStructures # <<>> => Len(details) > 0
    /\ (code.type = "string" /\ pc \in {"classify", "sort", "search", "structures"}) =>
          \A i \in 1..Len(details) : ~IsStructuresLine(details[i])

\* a text with the set idiom ahead of the dictionary idiom and the list
\* idiom last has been analysed
C21_Witness ==
    /\ ReturnedOnText
    /\ code.value = "s=set(dict())\nif x in list(y):"
    /\ dataStructures = <<"List", "Dictionary", "Set", "Tuple">>
    /\ IsStructuresLine(details[Len(details)])

\* the text has a list literal or a list constructor
HasListIdiom(text) == includes(text, "=[") \/ includes(text, "list(")

\* the text has a dictionary literal or a dictionary constructor
HasDictionaryIdiom(text) == includes(text, "={") \/ includes(text, "dict(")

\* C22: the detected kinds include List whenever the text has a list
\* literal or constructor, and Dictionary whenever it has a dictionary
\* literal or constructor.
C22_LiteralsDetected ==
    Analysed =>
        /\ HasListIdiom(code.value) =>
              \E i \in 1..Len(dataStructures) : dataStructures[i] = "List"
        /\ HasDictionaryIdiom(code.value) =>
              \E i \in 1..Len(dataStructures) : dataStructures[i] = "Dictionary"

\* the application is shown dark: the setting is dark, or it is system and
\* the system prefers dark
EffectiveDark == theme = "dark" \/ (theme = "system" /\ systemDark)

\* C23: with the editor theme setting 'auto', getActualEditorTheme returns
\* the dark editor theme exactly when the application's effective
\* appearance is dark, the setting 'system' on a dark system included; with
\* any other setting it returns that setting.
C23_AutoFollowsAppearance ==
    /\ (editorTheme = "auto" /\ theme # "undefined") =>
           (getActualEditorTheme = "vs-dark" <=> EffectiveDark)
    /\ editorTheme # "auto" => getActualEditorTheme = editorTheme

\* the step starts an interpreter execution
StartsRun == \E i \in Slots : runs[i] = FreeRun /\ runs'[i].race = "pending"

\* C24: executionHistory never holds more than 10 entries nor an entry
\* twice; a step that starts a run puts the code of that run first and
\* keeps no entry that was not there, and no other step, the end of a run
\* by timeout or error included, changes the history.
C24_HistoryBounded ==
    /\ [](/\ Len(executionHistory) <= 10
          /\ \A i, j \in 1..Len(executionHistory) :
                executionHistory[i] = executionHistory[j] => i = j)
    /\ [][/\ StartsRun =>
                /\ executionHistory' # <<>>
                /\ Head(executionHistory') = pythonCode
                /\ \A i \in 2..Len(executionHistory') :
                      \E j \in 1..Len(executionHistory) :
                          executionHistory'[i] = executionHistory[j]
          /\ ~StartsRun => executionHistory' = executionHistory]_vars

\* an eleventh program has been run and its run has timed out: the history
\* is full and the first program is no longer in it
C24_Witness ==
    /\ Len(executionHistory) = 10
    /\ Head(executionHistory) = Program(11)
    /\ \A i \in 1..Len(executionHistory) : executionHistory[i] # Program(1)
    /\ output = TimeoutMessage

\* the first program has been run again and has moved from the end of the
\* history to its front
C24_WitnessMoved ==
    /\ Len(executionHistory) = 3
    /\ executionHistory = <<Program(1), Program(3), Program(2)>>

\* the runCode calls whose interpreter execution has not settled
InFlight == {i \in Slots : runs[i].promise = "pending"}

\* C25: at most one interpreter execution started by runCode is in flight
\* at a time, and running is true whenever one is in flight.
C25_OneExecutionAtATime ==
    /\ Cardinality(InFlight) <= 1
    /\ InFlight # {} => running

\* the load effect has started and has not reached the end of load()
LoadStarted == lpc \in {"script", "loadPyodide"}

\* C26: once the load effect has started, loadingPyodide eventually becomes
\* false, whether the script loads or fails, loadPyodide resolves or
\* rejects, and the component is still mounted or not.
C26_LoadingEnds == LoadStarted ~> (loadingPyodide = FALSE)

\* the load has completed on a component unmounted in between
C26_Witness ==
    /\ lpc = "done"
    /\ ~mounted
    /\ ~pyodide
    /\ loadingPyodide = FALSE
    /\ output = ""

\* C27: whenever loadingPyodide is false on the mounted component, so that
\* the status bar shows 'Pyodide: Ready' and the Run button is enabled when
\* nothing runs, pyodide is non-null and output is not the message
\* 'Pyodide not loaded yet.' of a runCode call that started nothing.
C27_ReadyMeansLoaded ==
    (mounted /\ ~loadingPyodide) =>
        /\ pyodide
        /\ output # NotLoadedMessage

\* the classes analyzeComplexity can return
ReturnedClasses ==
    {"O(1)", "O(n)", "O(n log n)", "O(n²)", "O(n³)", "O(2^n)", "O(n!)", "O(?)"}

\* C28: the class of every returned report is one of O(1), O(n),
\* O(n log n), O(n²), O(n³), O(2^n), O(n!) and O(?), never O(log n); when
\* recursion is reported, the class after the recursion branch is not the
\* default O(1).
C28_ClassInRange ==
    /\ Returned =>
          /\ report.complexity \in ReturnedClasses
          /\ report.complexity # "O(log n)"
    /\ (pc = "sort" /\ code.type = "string" /\ recursion.hasRecursion) =>
          complexity \in {"O(2^n)", "O(n)", "O(n!)"}

\* a report with the class of a linear recursion has been returned
C28_Witness ==
    /\ ReturnedOnText
    /\ recursion.hasRecursion
    /\ recursion.type = "linear"
    /\ report.complexity = "O(n)"

\* a is the beginning of b
IsPrefix(a, b) == Len(a) <= Len(b) /\ SubSeq(b, 1, Len(a)) = a

\* the step of analyzeComplexity a detail line comes from: 1 the
\* recursion/loop chain, 2 the sort step, 3 the search step, 4 the
\* data-structures step
DetailStage(d) ==
    IF d = "Built-in sorting algorithm detected" THEN 2
    ELSE IF d = "Linear search in list detected" THEN 3
    ELSE IF IsStructuresLine(d) THEN 4
    ELSE 1

\* the description of the recursion/loop chain
ChainDescription ==
    IF recursion.hasRecursion THEN RecursionOutcome(recursion.type)[2]
    ELSE IF nestedLoops.count >= 3 THEN "Cubic time - three nested loops"
    ELSE IF nestedLoops.count = 2 THEN "Quadratic time - two nested loops"
    ELSE IF nestedLoops.count = 1 THEN "Linear time - single loop"
    ELSE "Constant time - basic operations"

\* the class of the recursion/loop chain
ChainClass ==
    IF recursion.hasRecursion THEN RecursionOutcome(recursion.type)[1]
    ELSE LoopClass(nestedLoops.count)

\* C29: inside a call details only grows; its lines come in the order
\* recursion/loop lines, sort detail, search detail, data-structures line,
\* the last three at most once; when the sort step overrides the class of
\* the recursion/loop chain, the lines of that chain are still ahead of the
\* sort detail; the description is the one of the step that set the final
\* class.
C29_DetailsOnlyGrow ==
    /\ [][(code.type = "string"
           /\ pc \in {"classify", "sort", "search", "structures", "return"}) =>
              IsPrefix(details, details')]_vars
    /\ [](Analysed =>
            /\ \A i, j \in 1..Len(details) :
                  i < j =>
                     /\ DetailStage(details[i]) <= DetailStage(details[j])
                     /\ DetailStage(details[j]) > 1 =>
                           DetailStage(details[i]) < DetailStage(details[j])
            /\ (pc \in {"search", "structures", "return", "returned"}
                /\ HasSortCall(code.value)
                /\ ChainClass # "O(1)") =>
                  /\ Len(details) >= 2
                  /\ DetailStage(details[1]) = 1
                  /\ \E j \in 2..Len(details) : DetailStage(details[j]) = 2
            /\ pc \in {"return", "returned"} =>
                  description =
                     IF HasSortCall(code.value)
                     THEN "Linearithmic time - efficient sorting"
                     ELSE IF HasMembershipIdiom(code.value) /\ ChainClass = "O(1)"
                     THEN "Linear time - list search"
                     ELSE ChainDescription)

\* the sort step has overridden an exponential recursion and all four
\* steps but the search step have left their lines
C29_Witness ==
    /\ ReturnedOnText
    /\ recursion.hasRecursion
    /\ recursion.type = "fibonacci"
    /\ report.complexity = "O(n log n)"
    /\ Len(details) = 4
    /\ DetailStage(details[3]) = 2
    /\ DetailStage(details[4]) = 4

\* C30: the largest y of the 10 points returned by generateComplexityData
\* is at least 1 for every label, so maxY of ComplexityGraph is not zero.
C30_MaxYPositive ==
    gpc = "returned" =>
        /\ maxY(data) >= 1 * 1000
        /\ \E i \in 1..Len(data) : data[i].y >= 1 * 1000

\* the logarithmic curve, whose first point is 0, has been returned
C30_Witness ==
    /\ gpc = "returned"
    /\ label = "O(log n)"
    /\ data[1].y = 0
    /\ maxY(data) > 0

====
